---- MODULE Spec2Model ----
(***************************************************************************)
(* Kanji library, spaced-repetition scheduler, prompt selector and         *)
(* sentence session of the Kanji learning app.                             *)
(*                                                                         *)
(* Time is counted in hours: every timestamp and interval of the source is *)
(* a multiple that the model divides by 3 600 000 ms, so SRS_INTERVALS[0]  *)
(* (4 hours) is 4 and the penalty interval SRS_INTERVALS[0] / 4 is 1.      *)
(* Characters are small integers; a typed text is a sequence of            *)
(* characters, a generated sentence the set of its kanji; jlptLevel null   *)
(* is NoJlpt.                                                              *)
(*                                                                         *)
(* Spec is the app as App.tsx wires it, run with a storage that has room;  *)
(* StoreSpec is the useKanjiLibrary hook alone, called through everything  *)
(* it returns, with a storage whose quota can run out.                     *)
(***************************************************************************)
EXTENDS Integers, Sequences, FiniteSets, TLC

\* ------------------------------------------------------------------ bounds
MaxHead == 2        \* selector libraries: entries of freely chosen profile
MaxPad == 10        \* selector libraries: further entries of one profile
NumChars == 2       \* distinct kanji
MaxTextLen == 2     \* symbols in a typed text, a word or an image
MaxSentences == 2   \* sentences in one generation response
MaxStored == 1      \* entries of the library found in storage at start
MaxAdds == 2        \* add calls awaiting their external call at one time
MaxTime == 42       \* the clock stops here
MaxSrsLevel == 8    \* no correct review beyond this level
MaxUsedCount == 2   \* no generation round beyond this count
MaxSteps == 6       \* handler and callback runs followed from the start
MaxStoreSteps == 4  \* calls of the hook's functions followed from the start
MaxHistory == 8     \* reviews in the history of a classified character

\* --------------------------------------------------------------- constants
SRS_INTERVALS == <<4, 8, 24, 72, 168, 336, 720, 2880>>
MASTERED_SRS_LEVEL == 7
PROMPT_KANJI_LIMIT == 10
NoJlpt == 0

\* ------------------------------------------------------- generic helpers
Min(a, b) == IF a < b THEN a ELSE b
Max(a, b) == IF a > b THEN a ELSE b

Range(s) == {s[i] : i \in 1..Len(s)}

\* Array.prototype.map(k => k.character)
Characters(list) == [i \in 1..Len(list) |-> list[i].character]

\* Array.prototype.sort with a comparator keyA - keyB: a stable sort, so the
\* element at index i lands behind every element with a smaller key and every
\* earlier element with an equal key.  key is the sequence of the sort keys.
StableSort(s, key) ==
  LET n == Len(s)
      Rank(i) == Cardinality({j \in 1..n : key[j] < key[i] \/ (key[j] = key[i] /\ j < i)}) + 1
  IN IF n = 0 THEN <<>>
     ELSE [p \in 1..n |-> s[CHOOSE i \in 1..n : Rank(i) = p]]

\* [...new Set(chars)]: first occurrences, in order
RECURSIVE Unique(_)
Unique(s) ==
  IF s = <<>> THEN <<>>
  ELSE LET init == Unique(SubSeq(s, 1, Len(s) - 1))
           last == s[Len(s)]
       IN IF last \in Range(init) THEN init ELSE Append(init, last)

\* ------------------------------------------------------ library store
\* the sort by addedAt with entries of equal addedAt in reverse order
SortedByAddedAtTiesReversed(list) ==
  LET n == Len(list)
      reversed == [i \in 1..n |-> list[n + 1 - i]]
  IN StableSort(reversed, [i \in 1..n |-> 0 - reversed[i].addedAt])

\* saveKanjiList's [...list].sort((a, b) => b.addedAt - a.addedAt)
SortedByAddedAt(list) == StableSort(list, [i \in 1..Len(list) |-> 0 - list[i].addedAt])

\* NewKanji with the first review one interval after the creation
NewKanjiDueLater(character, timestamp, jlpt) ==
  [character |-> character, addedAt |-> timestamp, usedCount |-> 0, lastUsedAt |-> 0,
   jlptLevel |-> IF jlpt > 0 THEN jlpt ELSE NoJlpt,
   srsLevel |-> 0, nextReviewAt |-> timestamp + SRS_INTERVALS[1], lastReviewedAt |-> 0,
   correctStreak |-> 0]

\* the object literal addKanji builds for a new character
NewKanji(character, timestamp, jlpt) ==
  [character |-> character, addedAt |-> timestamp, usedCount |-> 0, lastUsedAt |-> 0,
   jlptLevel |-> IF jlpt > 0 THEN jlpt ELSE NoJlpt,
   srsLevel |-> 0, nextReviewAt |-> timestamp, lastReviewedAt |-> 0, correctStreak |-> 0]

\* UsedKanji that also starts the review schedule over
UsedKanjiRescheduled(kanji, timestamp) ==
  [kanji EXCEPT !.usedCount = kanji.usedCount + 1, !.lastUsedAt = timestamp,
                !.nextReviewAt = timestamp]

\* body of updateKanjiUsage's map callback for a character of the batch
UsedKanji(kanji, timestamp) ==
  [kanji EXCEPT !.usedCount = kanji.usedCount + 1, !.lastUsedAt = timestamp]

\* ReviewedKanji with the interval looked up at the level before the review
ReviewedKanjiOldLevel(kanji, performance, timestamp) ==
  LET srsLevel == IF performance = "correct" THEN kanji.srsLevel + 1
                  ELSE Max(0, kanji.srsLevel - 2)
      correctStreak == IF performance = "correct" THEN kanji.correctStreak + 1 ELSE 0
      interval == IF performance = "correct"
                  THEN SRS_INTERVALS[Min(kanji.srsLevel, Len(SRS_INTERVALS) - 1) + 1]
                  ELSE SRS_INTERVALS[1] \div 4
  IN [kanji EXCEPT !.srsLevel = srsLevel, !.correctStreak = correctStreak,
                   !.lastReviewedAt = timestamp, !.nextReviewAt = timestamp + interval]

\* ReviewedKanji with the interval index wrapped around the end of the ladder
ReviewedKanjiWrapped(kanji, performance, timestamp) ==
  LET srsLevel == IF performance = "correct" THEN kanji.srsLevel + 1
                  ELSE Max(0, kanji.srsLevel - 2)
      correctStreak == IF performance = "correct" THEN kanji.correctStreak + 1 ELSE 0
      interval == IF performance = "correct"
                  THEN SRS_INTERVALS[(srsLevel % Len(SRS_INTERVALS)) + 1]
                  ELSE SRS_INTERVALS[1] \div 4
  IN [kanji EXCEPT !.srsLevel = srsLevel, !.correctStreak = correctStreak,
                   !.lastReviewedAt = timestamp, !.nextReviewAt = timestamp + interval]

\* ReviewedKanji without the Math.max(0, ...) floor
ReviewedKanjiNoFloor(kanji, performance, timestamp) ==
  LET srsLevel == IF performance = "correct" THEN kanji.srsLevel + 1
                  ELSE kanji.srsLevel - 2
      correctStreak == IF performance = "correct" THEN kanji.correctStreak + 1 ELSE 0
      interval == IF performance = "correct"
                  THEN SRS_INTERVALS[Min(srsLevel, Len(SRS_INTERVALS) - 1) + 1]
                  ELSE SRS_INTERVALS[1] \div 4
  IN [kanji EXCEPT !.srsLevel = srsLevel, !.correctStreak = correctStreak,
                   !.lastReviewedAt = timestamp, !.nextReviewAt = timestamp + interval]

\* ReviewedKanji without the penalty delay after an incorrect answer
ReviewedKanjiDueAtOnce(kanji, performance, timestamp) ==
  LET srsLevel == IF performance = "correct" THEN kanji.srsLevel + 1
                  ELSE Max(0, kanji.srsLevel - 2)
      correctStreak == IF performance = "correct" THEN kanji.correctStreak + 1 ELSE 0
      interval == IF performance = "correct"
                  THEN SRS_INTERVALS[Min(srsLevel, Len(SRS_INTERVALS) - 1) + 1]
                  ELSE 0
  IN [kanji EXCEPT !.srsLevel = srsLevel, !.correctStreak = correctStreak,
                   !.lastReviewedAt = timestamp, !.nextReviewAt = timestamp + interval]

\* body of updateKanjiReview's map callback for a character of the batch
ReviewedKanji(kanji, performance, timestamp) ==
  LET srsLevel == IF performance = "correct" THEN kanji.srsLevel + 1
                  ELSE Max(0, kanji.srsLevel - 2)
      correctStreak == IF performance = "correct" THEN kanji.correctStreak + 1 ELSE 0
      interval == IF performance = "correct"
                  THEN SRS_INTERVALS[Min(srsLevel, Len(SRS_INTERVALS) - 1) + 1]
                  ELSE SRS_INTERVALS[1] \div 4
  IN [kanji EXCEPT !.srsLevel = srsLevel, !.correctStreak = correctStreak,
                   !.lastReviewedAt = timestamp, !.nextReviewAt = timestamp + interval]

\* UsageUpdatedList without the characters.includes test
UsageUpdatedListAll(list, characters, timestamp) ==
  [i \in 1..Len(list) |-> UsedKanji(list[i], timestamp)]

\* kanjiList.map(...) of updateKanjiUsage, before the save
UsageUpdatedList(list, characters, timestamp) ==
  [i \in 1..Len(list) |->
     IF list[i].character \in Range(characters) THEN UsedKanji(list[i], timestamp) ELSE list[i]]

\* ReviewUpdatedList that grades the first character of the batch only
ReviewUpdatedListFirstOnly(list, characters, performance, timestamp) ==
  [i \in 1..Len(list) |->
     IF characters # <<>> /\ list[i].character = characters[1]
     THEN ReviewedKanji(list[i], performance, timestamp) ELSE list[i]]

\* ReviewUpdatedList that gives up the whole batch when a character of it is
\* not in the list
ReviewUpdatedListStrict(list, characters, performance, timestamp) ==
  IF \E c \in Range(characters) : \A i \in 1..Len(list) : list[i].character # c
  THEN list
  ELSE [i \in 1..Len(list) |->
          IF list[i].character \in Range(characters)
          THEN ReviewedKanji(list[i], performance, timestamp) ELSE list[i]]

\* kanjiList.map(...) of updateKanjiReview, before the save
ReviewUpdatedList(list, characters, performance, timestamp) ==
  [i \in 1..Len(list) |->
     IF list[i].character \in Range(characters)
     THEN ReviewedKanji(list[i], performance, timestamp) ELSE list[i]]

\* ------------------------------------------------------ prompt selector
IsDue(k, now) == k.nextReviewAt <= now
IsLeech(k, now) ==
  k.nextReviewAt > now /\ k.srsLevel > 0 /\ k.srsLevel <= 3 /\ k.correctStreak <= 1
IsLearning(k, now) == k.nextReviewAt > now /\ k.srsLevel < MASTERED_SRS_LEVEL

\* addItem without the size check
addItemNoLimit(finalSelection, kanji) ==
  IF \E i \in 1..Len(finalSelection) : finalSelection[i].character = kanji.character
  THEN [i \in 1..Len(finalSelection) |->
          IF finalSelection[i].character = kanji.character THEN kanji
          ELSE finalSelection[i]]
  ELSE Append(finalSelection, kanji)

\* addItem that deletes the key before it sets it, moving the entry to the end
addItemReinsert(finalSelection, kanji) ==
  IF Len(finalSelection) < PROMPT_KANJI_LIMIT
  THEN Append(SelectSeq(finalSelection, LAMBDA k : k.character # kanji.character), kanji)
  ELSE finalSelection

\* const addItem = kanji => { if (size < LIMIT) finalSelection.set(character, kanji) }
\* on a Map kept as the sequence of its values in insertion order
addItem(finalSelection, kanji) ==
  IF Len(finalSelection) < PROMPT_KANJI_LIMIT
  THEN IF \E i \in 1..Len(finalSelection) : finalSelection[i].character = kanji.character
       THEN [i \in 1..Len(finalSelection) |->
               IF finalSelection[i].character = kanji.character THEN kanji
               ELSE finalSelection[i]]
       ELSE Append(finalSelection, kanji)
  ELSE finalSelection

\* items.forEach(addItem)
RECURSIVE forEachAddItem(_, _)
forEachAddItem(finalSelection, items) ==
  IF items = <<>> THEN finalSelection
  ELSE forEachAddItem(addItem(finalSelection, Head(items)), Tail(items))

Candidates(list, filter) ==
  IF filter > 0 THEN SelectSeq(list, LAMBDA k : k.jlptLevel = filter) ELSE list

DueForReview(candidates, now) ==
  LET due == SelectSeq(candidates, LAMBDA k : IsDue(k, now))
  IN StableSort(due, [i \in 1..Len(due) |-> due[i].srsLevel])

Leeches(candidates, now) ==
  LET l == SelectSeq(candidates, LAMBDA k : IsLeech(k, now))
  IN StableSort(l, [i \in 1..Len(l) |-> l[i].lastReviewedAt])

LearningKanji(candidates, now) ==
  LET l == SelectSeq(candidates, LAMBDA k : IsLearning(k, now))
  IN StableSort(l, [i \in 1..Len(l) |-> 0 - l[i].addedAt])

\* the staleness sort with its comparator reversed
SortedByFreshness(candidates) ==
  StableSort(candidates, [i \in 1..Len(candidates) |-> 0 - candidates[i].lastUsedAt])

SortedByStaleness(candidates) ==
  StableSort(candidates, [i \in 1..Len(candidates) |-> candidates[i].lastUsedAt])

\* selectKanjiForPrompt with the leeches inserted before the due items
selectKanjiLeechesFirst(list, filter, now) ==
  LET candidates == Candidates(list, filter)
      tiers == forEachAddItem(
                 forEachAddItem(
                   forEachAddItem(<<>>, Leeches(candidates, now)),
                   DueForReview(candidates, now)),
                 LearningKanji(candidates, now))
  IN IF Len(candidates) = 0 THEN <<>>
     ELSE IF Len(tiers) = 0 /\ Len(candidates) > 0
          THEN forEachAddItem(tiers,
                 SubSeq(SortedByStaleness(candidates), 1,
                        Min(PROMPT_KANJI_LIMIT, Len(candidates))))
          ELSE tiers

selectKanjiForPrompt(list, filter, now) ==
  LET candidates == Candidates(list, filter)
      tiers == forEachAddItem(
                 forEachAddItem(
                   forEachAddItem(<<>>, DueForReview(candidates, now)),
                   Leeches(candidates, now)),
                 LearningKanji(candidates, now))
  IN IF Len(candidates) = 0 THEN <<>>
     ELSE IF Len(tiers) = 0 /\ Len(candidates) > 0
          THEN forEachAddItem(tiers,
                 SubSeq(SortedByStaleness(candidates), 1,
                        Min(PROMPT_KANJI_LIMIT, Len(candidates))))
          ELSE tiers

\* the library array after a call whose candidates are the library array
\* itself when there is no filter: the sort of sortedByStaleness reorders it
LibraryAfterSelectShared(list, filter, now) ==
  LET candidates == Candidates(list, filter)
  IN IF /\ filter = 0 /\ Len(candidates) > 0
        /\ DueForReview(candidates, now) = <<>>
        /\ Leeches(candidates, now) = <<>>
        /\ LearningKanji(candidates, now) = <<>>
     THEN SortedByStaleness(candidates)
     ELSE list

\* the library array after a selectKanjiForPrompt call.  candidates is a new
\* array, from filter() or from the spread, and so is each tier; the one sort
\* in place, that of sortedByStaleness, reorders candidates, and no comparator
\* writes to an entry.
LibraryAfterSelect(list, filter, now) == list

\* ------------------------------------------------- libraries of earlier runs
\* A library is what earlier sessions left behind: each entry is a character
\* added at addedAt, reviewed and used as its history says, so every library
\* below is one the store can hold.  reviews is a sequence of
\* <<performance, timestamp>>, used a sequence of usage timestamps.
Profiles ==
  { [name |-> "new", addedAt |-> 20, jlpt |-> 5, reviews |-> <<>>, used |-> <<>>],
    [name |-> "due2", addedAt |-> 10, jlpt |-> 0,
     reviews |-> <<<<"correct", 11>>, <<"correct", 11>>>>, used |-> <<11>>],
    [name |-> "leechA", addedAt |-> 10, jlpt |-> 5,
     reviews |-> <<<<"correct", 39>>>>, used |-> <<39>>],
    [name |-> "leechB", addedAt |-> 12, jlpt |-> 4,
     reviews |-> <<<<"correct", 12>>, <<"correct", 12>>, <<"correct", 12>>,
                   <<"incorrect", 40>>>>, used |-> <<40>>],
    [name |-> "learn2", addedAt |-> 15, jlpt |-> 5,
     reviews |-> <<<<"correct", 40>>, <<"correct", 40>>>>, used |-> <<40>>],
    [name |-> "learn0", addedAt |-> 20, jlpt |-> 0,
     reviews |-> <<<<"incorrect", 40>>>>, used |-> <<40>>],
    [name |-> "masterA", addedAt |-> 5, jlpt |-> 5,
     reviews |-> [i \in 1..7 |-> <<"correct", 30>>], used |-> <<33>>],
    [name |-> "masterB", addedAt |-> 4, jlpt |-> 4,
     reviews |-> [i \in 1..7 |-> <<"correct", 31>>], used |-> <<32>>] }

RECURSIVE ApplyReviews(_, _)
ApplyReviews(kanji, reviews) ==
  IF reviews = <<>> THEN kanji
  ELSE ApplyReviews(ReviewedKanji(kanji, Head(reviews)[1], Head(reviews)[2]), Tail(reviews))

RECURSIVE ApplyUsage(_, _)
ApplyUsage(kanji, used) ==
  IF used = <<>> THEN kanji
  ELSE ApplyUsage(UsedKanji(kanji, Head(used)), Tail(used))

BuildKanji(character, p) ==
  ApplyUsage(ApplyReviews(NewKanji(character, p.addedAt, p.jlpt), p.reviews), p.used)

\* the library whose i-th character has the i-th profile, as saveKanjiList
\* leaves it
BuildLibrary(ps) == SortedByAddedAt([i \in 1..Len(ps) |-> BuildKanji(i, ps[i])])

ProfileSeqs(n) == UNION {[1..m -> Profiles] : m \in 0..n}

\* up to MaxHead entries of any profile, followed by up to MaxPad further
\* entries of one profile
SelectorLibraries ==
  { BuildLibrary(h \o [i \in 1..m |-> p]) :
      h \in ProfileSeqs(MaxHead), m \in 0..MaxPad, p \in Profiles }

SelectorFilters == {0, 5}
SelectorNows == {40, 2900}

\* ============================================================ the program
VARIABLES
  kanjiList,          \* useKanjiLibrary: the kanjiList state
  stored,             \* localStorage item 'kanjiLibrary'
  storageFull,        \* localStorage.setItem throws (quota exceeded)
  isLoading,          \* useKanjiLibrary: the isLoading state
  adds,               \* addKanji / addKanjiFromImage calls awaiting their external call
  now,                \* Date.now(), in hours
  jlptFilter,         \* SentenceGenerator: jlptFilter state
  genLoading,         \* SentenceGenerator: isLoading state
  error,              \* SentenceGenerator: error state
  sessionInProgress,  \* SentenceGenerator: sessionInProgress state
  cards,              \* SentenceGenerator: sentences state, one SentenceCard each
  gens,               \* handleGenerate calls awaiting the generation service
  steps               \* handler and callback runs so far

vars == <<kanjiList, stored, storageFull, isLoading, adds, now, jlptFilter, genLoading, error,
          sessionInProgress, cards, gens, steps>>

hookVars == <<kanjiList, stored, storageFull, isLoading, adds>>
genVars == <<jlptFilter, genLoading, error, sessionInProgress, gens>>

\* ---------------------------------------------------------- persistence
\* JSON.stringify of the list: each object becomes the row of its property
\* values in the order the object literal of addKanji creates them
Stringify(list) ==
  [i \in 1..Len(list) |->
     <<list[i].character, list[i].addedAt, list[i].usedCount, list[i].lastUsedAt,
       list[i].jlptLevel, list[i].srsLevel, list[i].nextReviewAt,
       list[i].lastReviewedAt, list[i].correctStreak>>]

\* JSON.parse of a stored list
Parse(json) ==
  [i \in 1..Len(json) |->
     [character |-> json[i][1], addedAt |-> json[i][2], usedCount |-> json[i][3],
      lastUsedAt |-> json[i][4], jlptLevel |-> json[i][5], srsLevel |-> json[i][6],
      nextReviewAt |-> json[i][7], lastReviewedAt |-> json[i][8],
      correctStreak |-> json[i][9]]]

NoItem == [present |-> FALSE, json |-> <<>>]

\* the mount effect: kanjiList stays [] unless the item exists
LoadedList(item) == IF item.present THEN Parse(item.json) ELSE <<>>

\* SentenceGenerator re-renders with every change of its props or state, and
\* SessionScreen is a component created anew by each render, so the
\* SentenceCards below it are mounted again and their feedbackGiven state
\* starts over at false
Remounted(cs) == [i \in 1..Len(cs) |-> [cs[i] EXCEPT !.feedbackGiven = FALSE]]

\* saveKanjiList that writes the list as it was passed in, before the sort
saveKanjiListUnsorted(list) ==
  LET sortedList == SortedByAddedAt(list)
  IN /\ kanjiList' = sortedList
     /\ stored' = IF storageFull THEN stored
                  ELSE [present |-> TRUE, json |-> Stringify(list)]
     /\ UNCHANGED storageFull

\* saveKanjiList that writes the item first, so that a setItem that throws
\* skips setKanjiList
saveKanjiListWriteFirst(list) ==
  LET sortedList == SortedByAddedAt(list)
  IN /\ kanjiList' = IF storageFull THEN kanjiList ELSE sortedList
     /\ stored' = IF storageFull THEN stored
                  ELSE [present |-> TRUE, json |-> Stringify(sortedList)]
     /\ UNCHANGED storageFull

\* saveKanjiList(list): the sorted copy becomes the state, then the item is
\* written; a setItem that throws is caught and logged, after setKanjiList
saveKanjiList(list) ==
  LET sortedList == SortedByAddedAt(list)
  IN /\ kanjiList' = sortedList
     /\ stored' = IF storageFull THEN stored
                  ELSE [present |-> TRUE, json |-> Stringify(sortedList)]
     /\ UNCHANGED storageFull

\* ------------------------------------------------------------ inputs
\* symbol 0 is a character outside KANJI_REGEX (kana, latin), 1..NumChars are kanji
Symbols == 0..NumChars
Texts == UNION {[1..n -> Symbols] : n \in 1..MaxTextLen}
\* what kanjiapi.dev knows: the jlpt of a character, 0 when it has none
Dictionary(c) == IF c % 2 = 1 THEN 5 ELSE 0
Performances == {"correct", "incorrect"}

\* The japanese text of a generated sentence is read through
\* includes(character) only, so it is kept as the set of the kanji it contains
\* (the empty set is a sentence without kanji).  A sentence of a response is
\* such a text, or an object without a japanese property.
JapaneseTexts == SUBSET (1..NumChars)
Malformed == {0 - 1}
Responses == UNION {[1..n -> JapaneseTexts \cup {Malformed}] : n \in 0..MaxSentences}

StoredProfiles == {p \in Profiles : p.name \in {"new", "leechB", "masterA"}}
StoredLibraries ==
  {BuildLibrary(h) : h \in UNION {[1..m -> StoredProfiles] : m \in 0..MaxStored}}

RemoveAt(s, i) == SubSeq(s, 1, i - 1) \o SubSeq(s, i + 1, Len(s))

\* ------------------------------------------------------------ useKanjiLibrary
\* text.match(KANJI_REGEX) || []
KanjiIn(text) == SelectSeq(text, LAMBDA c : c > 0)

\* NewKanjiChars without the filter against the existing characters
NewKanjiCharsUnfiltered(list, text) == Unique(KanjiIn(text))

\* addKanji: the new unique kanji of text, against the kanjiList of the closure
NewKanjiChars(list, text) ==
  SelectSeq(Unique(KanjiIn(text)), LAMBDA c : c \notin Range(Characters(list)))

\* addKanji(text) up to its await: nothing new returns 0 at once (finally
\* clears isLoading), otherwise the call waits for the dictionary lookups
\* holding the kanjiList of the render that created the callback
addKanji(list, text) ==
  LET newKanjiChars == NewKanjiChars(list, text)
  IN IF Len(newKanjiChars) > 0
     THEN /\ Len(adds) < MaxAdds
          /\ adds' = Append(adds, [stage |-> "lookup", list |-> list, chars |-> newKanjiChars])
          /\ isLoading' = TRUE
     ELSE /\ adds' = adds
          /\ isLoading' = FALSE

\* every handler or callback run counts against MaxSteps
CountStep == steps < MaxSteps /\ steps' = steps + 1

\* KanjiLibrary.handleSubmit: the form is disabled while isLoading
SubmitText(text) ==
  /\ CountStep
  /\ ~isLoading
  /\ addKanji(kanjiList, text)
  /\ cards' = Remounted(cards)
  /\ UNCHANGED <<kanjiList, stored, storageFull, now>>
  /\ UNCHANGED genVars

\* addKanji after Promise.all: the new entries, with the jlpt of their
\* lookups, are appended to the kanjiList of the closure and saved
AddKanjiResolve(i) ==
  /\ CountStep
  /\ adds[i].stage = "lookup"
  /\ LET a == adds[i]
         timestamp == now
         newKanji == [n \in 1..Len(a.chars) |-> NewKanji(a.chars[n], timestamp, Dictionary(a.chars[n]))]
     IN saveKanjiList(a.list \o newKanji)
  /\ adds' = RemoveAt(adds, i)
  /\ isLoading' = FALSE
  /\ cards' = Remounted(cards)
  /\ UNCHANGED now
  /\ UNCHANGED genVars

\* addKanjiFromImage up to its await; the file input is disabled while isLoading
addKanjiFromImage ==
  /\ CountStep
  /\ ~isLoading
  /\ Len(adds) < MaxAdds
  /\ adds' = Append(adds, [stage |-> "extract", list |-> kanjiList, chars |-> <<>>])
  /\ isLoading' = TRUE
  /\ cards' = Remounted(cards)
  /\ UNCHANGED <<kanjiList, stored, storageFull, now>>
  /\ UNCHANGED genVars

\* the extraction resolved with text: addKanji of the same closure runs on it
ExtractResolve(i, text) ==
  /\ CountStep
  /\ adds[i].stage = "extract"
  /\ LET newKanjiChars == NewKanjiChars(adds[i].list, text)
     IN IF Len(newKanjiChars) > 0
        THEN /\ adds' = [adds EXCEPT ![i] = [stage |-> "lookup", list |-> adds[i].list,
                                              chars |-> newKanjiChars]]
             /\ isLoading' = TRUE
        ELSE /\ adds' = RemoveAt(adds, i)
             /\ isLoading' = FALSE
  /\ cards' = Remounted(cards)
  /\ UNCHANGED <<kanjiList, stored, storageFull, now>>
  /\ UNCHANGED genVars

\* the extraction rejected: the error is rethrown, finally clears isLoading
ExtractFail(i) ==
  /\ CountStep
  /\ adds[i].stage = "extract"
  /\ adds' = RemoveAt(adds, i)
  /\ isLoading' = FALSE
  /\ cards' = Remounted(cards)
  /\ UNCHANGED <<kanjiList, stored, storageFull, now>>
  /\ UNCHANGED genVars

deleteKanji(character) ==
  /\ CountStep
  /\ character \in Range(Characters(kanjiList))
  /\ saveKanjiList(SelectSeq(kanjiList, LAMBDA k : k.character # character))
  /\ cards' = Remounted(cards)
  /\ UNCHANGED <<isLoading, adds, now>>
  /\ UNCHANGED genVars

\* updateKanjiUsage(characters) of the render that holds list
updateKanjiUsage(list, characters) ==
  LET timestamp == now
  IN saveKanjiList(UsageUpdatedList(list, characters, timestamp))

\* updateKanjiReview(characters, performance) of the render that holds list
updateKanjiReview(list, characters, performance) ==
  LET timestamp == now
  IN saveKanjiList(ReviewUpdatedList(list, characters, performance, timestamp))

\* ------------------------------------------------------------ SentenceGenerator
NoError == "none"
NoCandidates == "No Kanji available for sentence generation with the current filters."
GenerationFailed == "Failed to generate sentences with Gemini API."
NoLevel == 0

RECURSIVE SumOfLevels(_)
SumOfLevels(list) ==
  IF list = <<>> THEN 0 ELSE Head(list).jlptLevel + SumOfLevels(Tail(list))

\* Math.round of the quotient of two positive integers: halves round up
RoundDiv(sum, n) == (2 * sum + n) \div (2 * n)

\* the estimate with unranked characters counted into the average as 0
TargetLevelCountsUnranked(list, filter) ==
  IF filter > 0 THEN filter
  ELSE LET ranked == SelectSeq(list, LAMBDA k : k.jlptLevel # NoJlpt /\ k.jlptLevel > 0)
       IN IF Len(ranked) > 0
          THEN Max(1, Min(5, RoundDiv(SumOfLevels(list), Len(list))))
          ELSE NoLevel

\* the targetLevel handleGenerate passes on; NoLevel is undefined
TargetLevel(list, filter) ==
  IF filter > 0 THEN filter
  ELSE LET kanjiWithLevels == SelectSeq(list, LAMBDA k : k.jlptLevel # NoJlpt /\ k.jlptLevel > 0)
       IN IF Len(kanjiWithLevels) > 0
          THEN Max(1, Min(5, RoundDiv(SumOfLevels(kanjiWithLevels), Len(kanjiWithLevels))))
          ELSE NoLevel

\* s.japanese.includes(character)
Includes(japanese, character) == character \in japanese

\* the context cut down to the first tracked character found in the text
UsedKanjiInSentenceFind(list, japanese) ==
  LET found == Characters(SelectSeq(list, LAMBDA k : Includes(japanese, k.character)))
  IN IF found = <<>> THEN <<>> ELSE <<Head(found)>>

\* kanjiList.filter(k => s.japanese.includes(k.character)).map(k => k.character)
UsedKanjiInSentence(list, japanese) ==
  Characters(SelectSeq(list, LAMBDA k : Includes(japanese, k.character)))

RECURSIVE FlatMap(_)
FlatMap(contexts) ==
  IF contexts = <<>> THEN <<>> ELSE Head(contexts) \o FlatMap(Tail(contexts))

\* [...new Set(sentencesWithContext.flatMap(s => s.usedKanjiInSentence))]
AllUsedKanji(list, result) ==
  Unique(FlatMap([i \in 1..Len(result) |-> UsedKanjiInSentence(list, result[i])]))

\* the jlptFilter select of the start screen
setJlptFilter(f) ==
  /\ CountStep
  /\ ~sessionInProgress /\ ~genLoading
  /\ f # jlptFilter
  /\ jlptFilter' = f
  /\ cards' = Remounted(cards)
  /\ UNCHANGED hookVars
  /\ UNCHANGED <<now, genLoading, error, sessionInProgress, gens>>

\* handleGenerate without the early return on an empty selection
handleGenerateNoEarlyReturn ==
  /\ CountStep
  /\ ~genLoading
  /\ sessionInProgress \/ Len(kanjiList) > 0
  /\ \A i \in 1..Len(kanjiList) : kanjiList[i].usedCount < MaxUsedCount
  /\ LET selected == selectKanjiForPrompt(kanjiList, jlptFilter, now)
     IN /\ genLoading' = TRUE
        /\ error' = NoError
        /\ cards' = <<>>
        /\ gens' = Append(gens, [list |-> kanjiList, kanjiChars |-> Characters(selected),
                                 targetLevel |-> TargetLevel(kanjiList, jlptFilter)])
  /\ kanjiList' = LibraryAfterSelect(kanjiList, jlptFilter, now)
  /\ UNCHANGED <<stored, storageFull, isLoading, adds>>
  /\ UNCHANGED <<now, jlptFilter, sessionInProgress>>

\* handleGenerate reachable while a round is in flight: buttons that are not
\* disabled while isLoading
handleGenerateWhileLoading ==
  /\ CountStep
  /\ sessionInProgress \/ Len(kanjiList) > 0
  /\ Len(gens) < 2
  /\ \A i \in 1..Len(kanjiList) : kanjiList[i].usedCount < MaxUsedCount
  /\ LET selected == selectKanjiForPrompt(kanjiList, jlptFilter, now)
     IN IF Len(selected) = 0
        THEN /\ error' = NoCandidates
             /\ cards' = Remounted(cards)
             /\ UNCHANGED <<genLoading, gens>>
        ELSE /\ genLoading' = TRUE
             /\ error' = NoError
             /\ cards' = <<>>
             /\ gens' = Append(gens, [list |-> kanjiList, kanjiChars |-> Characters(selected),
                                      targetLevel |-> TargetLevel(kanjiList, jlptFilter)])
  /\ kanjiList' = LibraryAfterSelect(kanjiList, jlptFilter, now)
  /\ UNCHANGED <<stored, storageFull, isLoading, adds>>
  /\ UNCHANGED <<now, jlptFilter, sessionInProgress>>

\* handleGenerate up to its await.  The start button is disabled while
\* isLoading or with an empty library, the New Set button while isLoading.
handleGenerate ==
  /\ CountStep
  /\ ~genLoading
  /\ sessionInProgress \/ Len(kanjiList) > 0
  /\ \A i \in 1..Len(kanjiList) : kanjiList[i].usedCount < MaxUsedCount
  /\ LET selected == selectKanjiForPrompt(kanjiList, jlptFilter, now)
     IN IF Len(selected) = 0
        THEN /\ error' = NoCandidates
             /\ cards' = Remounted(cards)
             /\ UNCHANGED <<genLoading, gens>>
        ELSE /\ genLoading' = TRUE
             /\ error' = NoError
             /\ cards' = <<>>
             /\ gens' = Append(gens, [list |-> kanjiList, kanjiChars |-> Characters(selected),
                                      targetLevel |-> TargetLevel(kanjiList, jlptFilter)])
  /\ kanjiList' = LibraryAfterSelect(kanjiList, jlptFilter, now)
  /\ UNCHANGED <<stored, storageFull, isLoading, adds>>
  /\ UNCHANGED <<now, jlptFilter, sessionInProgress>>

\* GenerateCatch that counts the prompted characters as used
GenerateCatchCountsUsage(i) ==
  /\ error' = GenerationFailed
  /\ sessionInProgress' = FALSE
  /\ genLoading' = FALSE
  /\ gens' = RemoveAt(gens, i)
  /\ cards' = Remounted(cards)
  /\ updateKanjiUsage(gens[i].list, gens[i].kanjiChars)
  /\ UNCHANGED <<isLoading, adds>>

\* the catch and finally blocks of handleGenerate
GenerateCatch(i) ==
  /\ error' = GenerationFailed
  /\ sessionInProgress' = FALSE
  /\ genLoading' = FALSE
  /\ gens' = RemoveAt(gens, i)
  /\ cards' = Remounted(cards)
  /\ UNCHANGED hookVars

\* handleGenerate after its await, with the parsed response result: the
\* contexts come from the kanjiList of the closure, and onUpdateKanjiUsage is
\* the updateKanjiUsage of that same render
GenerateResolve(i, result) ==
  /\ CountStep
  /\ i \in 1..Len(gens)
  /\ IF Malformed \in Range(result)
     THEN GenerateCatch(i)
     ELSE /\ cards' = [n \in 1..Len(result) |->
                         [sentence |-> result[n],
                          usedKanjiInSentence |-> UsedKanjiInSentence(gens[i].list, result[n]),
                          isRevealed |-> FALSE, feedbackGiven |-> FALSE]]
          /\ sessionInProgress' = TRUE
          /\ updateKanjiUsage(gens[i].list, AllUsedKanji(gens[i].list, result))
          /\ genLoading' = FALSE
          /\ gens' = RemoveAt(gens, i)
          /\ UNCHANGED <<isLoading, adds, error>>
  /\ UNCHANGED <<now, jlptFilter>>

\* the generation service rejected (network, quota, unparsable text)
GenerateReject(i) ==
  /\ CountStep
  /\ i \in 1..Len(gens)
  /\ GenerateCatch(i)
  /\ UNCHANGED <<now, jlptFilter>>

\* the Reveal Answer / Hide Details button of card i
ToggleReveal(i) ==
  /\ CountStep
  /\ i \in 1..Len(cards)
  /\ cards' = Remounted([cards EXCEPT ![i].isRevealed = ~cards[i].isRevealed])
  /\ UNCHANGED hookVars
  /\ UNCHANGED genVars
  /\ UNCHANGED now

\* SentenceCard.handleFeedback of card i; its buttons are rendered only when
\* the card is revealed, has had no feedback and has a non-empty context
handleFeedback(i, performance) ==
  /\ CountStep
  /\ i \in 1..Len(cards)
  /\ cards[i].isRevealed /\ ~cards[i].feedbackGiven
  /\ Len(cards[i].usedKanjiInSentence) > 0
  /\ performance = "correct" =>
       \A n \in 1..Len(kanjiList) :
          kanjiList[n].character \in Range(cards[i].usedKanjiInSentence)
            => kanjiList[n].srsLevel < MaxSrsLevel
  /\ IF Len(cards[i].usedKanjiInSentence) > 0
     THEN updateKanjiReview(kanjiList, cards[i].usedKanjiInSentence, performance)
     ELSE UNCHANGED <<kanjiList, stored, storageFull>>
  /\ cards' = Remounted([cards EXCEPT ![i].feedbackGiven = TRUE])
  /\ UNCHANGED <<isLoading, adds, now>>
  /\ UNCHANGED genVars

\* WordDetailModal.handleAdd for a clicked token word; tokens are buttons
\* only on a revealed card.  The vocabulary list it also writes is a separate
\* store that nothing here reads.
handleAdd(word) ==
  /\ CountStep
  /\ \E i \in 1..Len(cards) : cards[i].isRevealed
  /\ LET kanjiInWord == KanjiIn(word)
         newKanji == SelectSeq(kanjiInWord, LAMBDA c : c \notin Range(Characters(kanjiList)))
     IN IF Len(newKanji) > 0
        THEN addKanji(kanjiList, newKanji)
        ELSE UNCHANGED <<isLoading, adds>>
  /\ cards' = Remounted(cards)
  /\ UNCHANGED <<kanjiList, stored, storageFull, now>>
  /\ UNCHANGED genVars

Tick ==
  /\ now < MaxTime
  /\ now' = now + 1
  /\ UNCHANGED <<kanjiList, stored, storageFull, isLoading, adds, jlptFilter,
                 genLoading, error, sessionInProgress, cards, gens, steps>>

\* ------------------------------------------------------------ specifications
\* after the mount effect: the library is the one found in storage
Init ==
  /\ stored \in {NoItem} \cup {[present |-> TRUE, json |-> Stringify(l)] : l \in StoredLibraries \ {<<>>}}
  /\ kanjiList = LoadedList(stored)
  /\ storageFull = FALSE
  /\ isLoading = FALSE
  /\ adds = <<>>
  /\ now = 41
  /\ jlptFilter = 0
  /\ genLoading = FALSE
  /\ error = NoError
  /\ sessionInProgress = FALSE
  /\ cards = <<>>
  /\ gens = <<>>
  /\ steps = 0

Next ==
  \/ \E text \in Texts : SubmitText(text)
  \/ \E i \in 1..Len(adds) : AddKanjiResolve(i)
  \/ addKanjiFromImage
  \/ \E i \in 1..Len(adds) : \E text \in Texts : ExtractResolve(i, text)
  \/ \E i \in 1..Len(adds) : ExtractFail(i)
  \/ \E c \in 1..NumChars : deleteKanji(c)
  \/ \E f \in SelectorFilters : setJlptFilter(f)
  \/ handleGenerate
  \/ \E i \in 1..Len(gens) : \E result \in Responses : GenerateResolve(i, result)
  \/ \E i \in 1..Len(gens) : GenerateReject(i)
  \/ \E i \in 1..Len(cards) : ToggleReveal(i)
  \/ \E i \in 1..Len(cards) : \E p \in Performances : handleFeedback(i, p)
  \/ \E word \in Texts : handleAdd(word)
  \/ Tick

Spec == Init /\ [][Next]_vars

\* the selector on the libraries of SelectorLibraries: one handleGenerate call
SelInit ==
  /\ kanjiList \in SelectorLibraries
  /\ stored = [present |-> TRUE, json |-> Stringify(kanjiList)]
  /\ storageFull = FALSE
  /\ isLoading = FALSE
  /\ adds = <<>>
  /\ now \in SelectorNows
  /\ jlptFilter \in SelectorFilters
  /\ genLoading = FALSE
  /\ error = NoError
  /\ sessionInProgress = FALSE
  /\ cards = <<>>
  /\ gens = <<>>
  /\ steps = 0

SelNext == handleGenerate

SelSpec == SelInit /\ [][SelNext]_vars

\* ------------------------------------------------- KanjiStatusIndicator
\* the classification with the leech test ahead of the due test
StatusLeechFirst(kanji, t) ==
  IF kanji.srsLevel = 0 THEN "new"
  ELSE IF kanji.srsLevel > 0 /\ kanji.srsLevel <= 3 /\ kanji.correctStreak <= 1 THEN "leech"
  ELSE IF t >= kanji.nextReviewAt THEN "due"
  ELSE IF kanji.srsLevel < MASTERED_SRS_LEVEL THEN "learning"
  ELSE "mastered"

\* the status KanjiStatusIndicator shows for kanji at time t
Status(kanji, t) ==
  IF kanji.srsLevel = 0 THEN "new"
  ELSE IF t >= kanji.nextReviewAt THEN "due"
  ELSE IF kanji.srsLevel > 0 /\ kanji.srsLevel <= 3 /\ kanji.correctStreak <= 1 THEN "leech"
  ELSE IF kanji.srsLevel < MASTERED_SRS_LEVEL THEN "learning"
  ELSE "mastered"

\* review histories of one character: up to MaxHistory outcomes, all given
\* at the same time
StatusHistories ==
  UNION {[1..n -> {<<p, t>> : p \in Performances}] : n \in 0..MaxHistory, t \in {10, 40}}

StatusNows == {41, 2921}

\* the library panel showing one character with some review history
StatusInit ==
  /\ \E h \in StatusHistories :
       kanjiList = <<BuildKanji(1, [name |-> "history", addedAt |-> 5, jlpt |-> 5,
                                    reviews |-> h, used |-> <<>>])>>
  /\ stored = [present |-> TRUE, json |-> Stringify(kanjiList)]
  /\ storageFull = FALSE
  /\ isLoading = FALSE
  /\ adds = <<>>
  /\ now \in StatusNows
  /\ jlptFilter = 0
  /\ genLoading = FALSE
  /\ error = NoError
  /\ sessionInProgress = FALSE
  /\ cards = <<>>
  /\ gens = <<>>
  /\ steps = 0

StatusNext == Tick

StatusSpec == StatusInit /\ [][StatusNext]_vars

\* ------------------------------------------------- the hook on its own
\* character lists a caller passes to updateKanjiUsage and updateKanjiReview
CharacterLists == {Unique(KanjiIn(text)) : text \in Texts} \ {<<>>}

\* the updates: Partial<Kanji> a caller passes to updateKanjiProperty
PropertyUpdates ==
  {[f \in {field} |-> value] :
     field \in {"srsLevel", "correctStreak", "nextReviewAt"}, value \in {0, 3}}

\* { ...kanji, ...updates }
Merged(kanji, updates) ==
  [f \in DOMAIN kanji |-> IF f \in DOMAIN updates THEN updates[f] ELSE kanji[f]]

\* updateKanjiProperty(character, updates): a callback with deps [kanjiList]
updateKanjiProperty(character, updates) ==
  /\ CountStep
  /\ saveKanjiList([i \in 1..Len(kanjiList) |->
                      IF kanjiList[i].character = character
                      THEN Merged(kanjiList[i], updates) ELSE kanjiList[i]])
  /\ cards' = Remounted(cards)
  /\ UNCHANGED <<isLoading, adds, now>>
  /\ UNCHANGED genVars

\* updateKanjiUsage(characters) of the current render
UsageCall(characters) ==
  /\ CountStep
  /\ updateKanjiUsage(kanjiList, characters)
  /\ cards' = Remounted(cards)
  /\ UNCHANGED <<isLoading, adds, now>>
  /\ UNCHANGED genVars

\* updateKanjiReview(characters, performance) of the current render
ReviewCall(characters, performance) ==
  /\ CountStep
  /\ updateKanjiReview(kanjiList, characters, performance)
  /\ cards' = Remounted(cards)
  /\ UNCHANGED <<isLoading, adds, now>>
  /\ UNCHANGED genVars

\* the storage quota runs out, or room is made
QuotaChange ==
  /\ CountStep
  /\ storageFull' = ~storageFull
  /\ UNCHANGED <<kanjiList, stored, isLoading, adds, now, cards>>
  /\ UNCHANGED genVars

StoreInit == Init

StoreNext ==
  \/ steps < MaxStoreSteps /\ \E text \in Texts : SubmitText(text)
  \/ steps < MaxStoreSteps /\ \E i \in 1..Len(adds) : AddKanjiResolve(i)
  \/ steps < MaxStoreSteps /\ \E c \in 1..NumChars : deleteKanji(c)
  \/ steps < MaxStoreSteps /\ \E cs \in CharacterLists : UsageCall(cs)
  \/ steps < MaxStoreSteps /\ \E cs \in CharacterLists : \E p \in Performances : ReviewCall(cs, p)
  \/ steps < MaxStoreSteps /\ \E c \in 1..NumChars : \E u \in PropertyUpdates :
                                 updateKanjiProperty(c, u)
  \/ steps < MaxStoreSteps /\ QuotaChange
  \/ Tick

StoreSpec == StoreInit /\ [][StoreNext]_vars

\* ================================================================ properties
Tracked(list, c) == \E n \in 1..Len(list) : list[n].character = c
EntryOf(list, c) == list[CHOOSE n \in 1..Len(list) : list[n].character = c]
Distinct(list) ==
  \A i, j \in 1..Len(list) : i # j => list[i].character # list[j].character

\* the selection a handleGenerate call in this state computes
Selection == selectKanjiForPrompt(kanjiList, jlptFilter, now)
\* the candidate pool: the whole library when the filter is 0, else its
\* entries of that jlptLevel
Pool == SelectSeq(kanjiList, LAMBDA k : jlptFilter = 0 \/ k.jlptLevel = jlptFilter)
\* the request the latest handleGenerate call dispatched, if it is in flight
Requested == IF gens = <<>> THEN <<>> ELSE gens[Len(gens)].kanjiChars

\* C1: a correct review at time t of a character with level s and streak k
\* leaves it with level s + 1, streak k + 1, lastReviewedAt t and
\* nextReviewAt t + SRS_INTERVALS[min(s + 1, 7)].
C1_CorrectReview ==
  [][\A i \in 1..Len(cards) :
       handleFeedback(i, "correct") =>
         \A n \in 1..Len(kanjiList) :
           kanjiList[n].character \in Range(cards[i].usedKanjiInSentence) =>
             \E m \in 1..Len(kanjiList') :
               /\ kanjiList'[m].character = kanjiList[n].character
               /\ kanjiList'[m].srsLevel = kanjiList[n].srsLevel + 1
               /\ kanjiList'[m].correctStreak = kanjiList[n].correctStreak + 1
               /\ kanjiList'[m].lastReviewedAt = now
               /\ kanjiList'[m].nextReviewAt =
                    now + SRS_INTERVALS[Min(kanjiList[n].srsLevel + 1, 7) + 1]]_vars

\* a character was reviewed correctly in this run from level 7, beyond the
\* end of the ladder
C1_Witness ==
  \E n \in 1..Len(kanjiList) :
    /\ kanjiList[n].lastReviewedAt = now
    /\ kanjiList[n].srsLevel = 8
    /\ kanjiList[n].correctStreak = 8
    /\ kanjiList[n].nextReviewAt = now + 2880

\* C2: an incorrect review at time t of a character with level s leaves it
\* with level max(0, s - 2), streak 0, lastReviewedAt t and nextReviewAt
\* t + 1 hour, whatever the new level.
C2_IncorrectReview ==
  [][\A i \in 1..Len(cards) :
       handleFeedback(i, "incorrect") =>
         \A n \in 1..Len(kanjiList) :
           kanjiList[n].character \in Range(cards[i].usedKanjiInSentence) =>
             \E m \in 1..Len(kanjiList') :
               /\ kanjiList'[m].character = kanjiList[n].character
               /\ kanjiList'[m].srsLevel =
                    (IF kanjiList[n].srsLevel >= 2 THEN kanjiList[n].srsLevel - 2 ELSE 0)
               /\ kanjiList'[m].srsLevel >= 0
               /\ kanjiList'[m].correctStreak = 0
               /\ kanjiList'[m].lastReviewedAt = now
               /\ kanjiList'[m].nextReviewAt = now + 1]_vars

\* the stored character of level 1 (added at 12) was reviewed incorrectly in
\* this run and sits at level 0
C2_Witness ==
  \E n \in 1..Len(kanjiList) :
    /\ kanjiList[n].addedAt = 12
    /\ kanjiList[n].lastReviewedAt = now
    /\ kanjiList[n].srsLevel = 0
    /\ kanjiList[n].correctStreak = 0
    /\ kanjiList[n].nextReviewAt = now + 1

\* C3: the selection has at most PROMPT_KANJI_LIMIT entries, of pairwise
\* distinct characters, and is empty only when the candidate pool is empty.
C3_SelectorCap ==
  LET sel == Selection
  IN /\ Len(sel) <= 10
     /\ Distinct(sel)
     /\ sel = <<>> => Pool = <<>>
     /\ Len(Requested) <= 10

\* a request of exactly ten characters was dispatched from a pool of more
C3_Witness == Len(Requested) = 10 /\ Len(Pool) > 10

Tier(k) ==
  IF k.nextReviewAt <= now THEN 1
  ELSE IF k.srsLevel > 0 /\ k.srsLevel <= 3 /\ k.correctStreak <= 1 THEN 2
  ELSE IF k.srsLevel < 7 THEN 3
  ELSE 4

\* the library is one due item of level 2, one leech and one learning item
TierScenario(d, l, g) ==
  /\ Len(kanjiList) = 3 /\ jlptFilter = 0
  /\ {d, l, g} = {1, 2, 3}
  /\ Tier(kanjiList[d]) = 1 /\ kanjiList[d].srsLevel = 2
  /\ Tier(kanjiList[l]) = 2
  /\ Tier(kanjiList[g]) = 3

\* C4: in the selection every due item precedes every non-due leech and every
\* non-due leech precedes every item that is only learning; one due item of
\* level 2, one leech and one learning item are selected as [due, leech, learning].
C4_TierOrder ==
  LET sel == Selection
      tier == [i \in 1..Len(sel) |-> Tier(sel[i])]
  IN /\ \A i, j \in 1..Len(sel) : i < j => tier[i] <= tier[j]
     /\ \A d, l, g \in 1..3 :
          TierScenario(d, l, g) => sel = <<kanjiList[d], kanjiList[l], kanjiList[g]>>

\* the scenario's request was dispatched, from a library that lists the
\* three in another order
C4_Witness ==
  \E d, l, g \in 1..3 :
    /\ TierScenario(d, l, g)
    /\ <<d, l, g>> # <<1, 2, 3>>
    /\ Requested = <<kanjiList[d].character, kanjiList[l].character, kanjiList[g].character>>

\* the reference algorithm: a stable insertion sort of <<key, item>> pairs
RECURSIVE RefSortPairs(_)
RefSortPairs(ps) ==
  IF ps = <<>> THEN <<>>
  ELSE LET rest == RefSortPairs(SubSeq(ps, 1, Len(ps) - 1))
           x == ps[Len(ps)]
           pos == Cardinality({i \in 1..Len(rest) : rest[i][1] <= x[1]})
       IN SubSeq(rest, 1, pos) \o <<x>> \o SubSeq(rest, pos + 1, Len(rest))

RefItems(ps) == [i \in 1..Len(ps) |-> ps[i][2]]

RECURSIVE RefDedup(_)
RefDedup(items) ==
  IF items = <<>> THEN <<>>
  ELSE LET init == RefDedup(SubSeq(items, 1, Len(items) - 1))
           x == items[Len(items)]
       IN IF Tracked(init, x.character) THEN init ELSE Append(init, x)

RefCut(items) == SubSeq(items, 1, IF Len(items) < 10 THEN Len(items) ELSE 10)

RefTierA(pool) ==
  LET t == SelectSeq(pool, LAMBDA k : Tier(k) = 1)
  IN RefItems(RefSortPairs([i \in 1..Len(t) |-> <<t[i].srsLevel, t[i]>>]))
RefTierB(pool) ==
  LET t == SelectSeq(pool, LAMBDA k : Tier(k) = 2)
  IN RefItems(RefSortPairs([i \in 1..Len(t) |-> <<t[i].lastReviewedAt, t[i]>>]))
RefTierC(pool) ==
  LET t == SelectSeq(pool, LAMBDA k : Tier(k) = 3)
  IN RefItems(RefSortPairs([i \in 1..Len(t) |-> <<0 - t[i].addedAt, t[i]>>]))
RefFallback(pool) ==
  RefItems(RefSortPairs([i \in 1..Len(pool) |-> <<pool[i].lastUsedAt, pool[i]>>]))

RefSelection ==
  LET pool == Pool
      tiers == RefCut(RefDedup(RefTierA(pool) \o RefTierB(pool) \o RefTierC(pool)))
  IN IF tiers = <<>> THEN RefCut(RefFallback(pool)) ELSE tiers

\* C5: the selection equals the reference algorithm's: due items by
\* ascending srsLevel, then non-due leeches by ascending lastReviewedAt, then
\* non-due, non-mastered, non-leech items by descending addedAt, ties in
\* library order, deduplicated by character and cut at the cap (and, when
\* the three tiers are empty, the staleness fallback of step 6).
C5_MatchesReference ==
  LET ref == RefSelection
  IN /\ Selection = ref
     /\ gens # <<>> => Requested = Characters(ref)

\* a request was dispatched that holds a leech ahead of a learning item,
\* the leech being one the code's tier C filter lets through as well
C5_Witness ==
  LET sel == Selection
  IN /\ gens # <<>>
     /\ Len(Requested) < 10
     /\ Requested = Characters(sel)
     /\ \E i, j \in 1..Len(sel) :
          /\ i < j
          /\ Tier(sel[i]) = 2 /\ Tier(sel[j]) = 3
          /\ IsLearning(sel[i], now)

NoneInTiers ==
  LET pool == Pool IN pool # <<>> /\ \A i \in 1..Len(pool) : Tier(pool[i]) = 4

\* C6: when the pool is non-empty and nothing in it is due, leech or
\* learning, the selection is min(10, pool size) candidates, those of
\* smallest lastUsedAt, in ascending lastUsedAt order.
C6_Fallback ==
  LET sel == Selection
      pool == Pool
      chosen == Range(sel)
  IN NoneInTiers =>
       /\ Len(sel) = (IF Len(pool) < 10 THEN Len(pool) ELSE 10)
       /\ Distinct(sel)
       /\ chosen \subseteq Range(pool)
       /\ \A i, j \in 1..Len(sel) : i < j => sel[i].lastUsedAt <= sel[j].lastUsedAt
       /\ \A i \in 1..Len(sel) : \A n \in 1..Len(pool) :
            pool[n] \notin chosen => sel[i].lastUsedAt <= pool[n].lastUsedAt

\* the fallback request was dispatched from a pool of more than ten mastered
\* characters, the stalest of which the library does not list first
C6_Witness ==
  LET pool == Pool
  IN /\ NoneInTiers
     /\ Len(pool) > 10
     /\ Len(Requested) = 10
     /\ \E n \in 2..Len(pool) : pool[n].lastUsedAt < pool[1].lastUsedAt

\* C7: one successful generation round raises the usedCount of every
\* character tracked when the round started by exactly 1 if it occurs in at
\* least one returned sentence, however many contain it, and by 0 otherwise.
C7_UsageOncePerRound ==
  [][\A i \in 1..Len(gens) :
       LET result == [x \in 1..Len(cards') |-> cards'[x].sentence]
       IN (error' = NoError /\ GenerateResolve(i, result)) =>
            \A n \in 1..Len(gens[i].list) :
              LET k == gens[i].list[n]
                  occurs == \E x \in 1..Len(result) : k.character \in result[x]
              IN /\ Tracked(kanjiList', k.character)
                 /\ EntryOf(kanjiList', k.character).usedCount
                      = k.usedCount + (IF occurs THEN 1 ELSE 0)]_vars

\* a round has just ended in which one character was in two sentences and
\* counted once, and another tracked character was in none
C7_Witness ==
  /\ Len(cards) = 2
  /\ \E n, m \in 1..Len(kanjiList) :
       /\ kanjiList[n].character \in cards[1].sentence \cap cards[2].sentence
       /\ kanjiList[n].lastUsedAt = now
       /\ kanjiList[n].usedCount = 1
       /\ kanjiList[m].character \notin cards[1].sentence \cup cards[2].sentence
       /\ kanjiList[m].usedCount = 0

\* C8: a generation call that fails (the service rejects, or the response
\* cannot be processed) changes neither the library in memory nor the stored
\* one, and neither does the part of handleGenerate before the call.
C8_FailureLeavesLibrary ==
  [][(\/ handleGenerate
      \/ \E i \in 1..Len(gens) : GenerateReject(i)
      \/ \E i \in 1..Len(gens) : GenerateResolve(i, <<Malformed>>))
       => (kanjiList' = kanjiList /\ stored' = stored)]_vars

\* a generation call has failed on a non-empty library
C8_Witness == error = GenerationFailed /\ ~genLoading /\ kanjiList # <<>>

AllTracked(text) == \A c \in Range(KanjiIn(text)) : Tracked(kanjiList, c)

\* C9: an addKanji call with a text whose kanji are all tracked returns 0 at
\* once (no lookup is started) and leaves the library, in memory and stored,
\* as it is.  addKanji is called by the form (SubmitText) and, with the
\* extracted text, by addKanjiFromImage (ExtractResolve).
C9_IdempotentAdd ==
  [][\A text \in Texts :
       AllTracked(text) =>
         /\ SubmitText(text) => (adds' = adds /\ kanjiList' = kanjiList /\ stored' = stored)
         /\ \A i \in 1..Len(adds) :
              ExtractResolve(i, text) =>
                (adds' = RemoveAt(adds, i) /\ kanjiList' = kanjiList /\ stored' = stored)]_vars

\* C10: the library holds at most one entry per character.
C10_UniqueCharacters == Distinct(kanjiList)

\* an add is still awaiting its lookups for a character that another add,
\* pending at the same time, has already put into the library
C10_Witness ==
  \E i \in 1..Len(adds) :
    /\ adds[i].stage = "lookup"
    /\ \E c \in Range(adds[i].chars) : Tracked(kanjiList, c) /\ ~Tracked(adds[i].list, c)

\* the set of tracked characters
TrackedSet(list) == Range(Characters(list))

\* C11: the set of tracked characters changes only when an add completes,
\* which adds exactly the characters of that add, and when deleteKanji(c)
\* runs, which removes exactly c; the completion of an add, an extraction or
\* a generation round that was awaiting its external call brings no deleted
\* character back and drops no character added in the meantime.
C11_MembershipByAddDelete ==
  [][/\ TrackedSet(kanjiList') # TrackedSet(kanjiList) =>
          \/ \E i \in 1..Len(adds) : AddKanjiResolve(i)
          \/ \E c \in 1..NumChars : deleteKanji(c)
     /\ \A i \in 1..Len(adds) :
          AddKanjiResolve(i) =>
            TrackedSet(kanjiList') = TrackedSet(kanjiList) \cup Range(adds[i].chars)
     /\ \A c \in 1..NumChars :
          deleteKanji(c) => TrackedSet(kanjiList') = TrackedSet(kanjiList) \ {c}]_vars

\* the entry of a character tracked before and after the step has changed
Mutated(c) ==
  /\ Tracked(kanjiList, c) /\ Tracked(kanjiList', c)
  /\ EntryOf(kanjiList', c) # EntryOf(kanjiList, c)

\* C12: of everything the store offers, only updateKanjiUsage and
\* updateKanjiReview change a field of an existing entry, and srsLevel and
\* correctStreak of a character change only in an updateKanjiReview call that
\* names the character.
C12_TwoMutators ==
  [][\A c \in 1..NumChars :
       /\ Mutated(c) =>
            \/ \E cs \in CharacterLists : UsageCall(cs)
            \/ \E cs \in CharacterLists : \E p \in Performances : ReviewCall(cs, p)
       /\ ( /\ Mutated(c)
            /\ \/ EntryOf(kanjiList', c).srsLevel # EntryOf(kanjiList, c).srsLevel
               \/ EntryOf(kanjiList', c).correctStreak # EntryOf(kanjiList, c).correctStreak )
            => \E cs \in CharacterLists : \E p \in Performances :
                 c \in Range(cs) /\ ReviewCall(cs, p)]_vars

\* C13: every tracked character that has been reviewed (lastReviewedAt > 0)
\* has nextReviewAt >= lastReviewedAt.
C13_NextReviewAfterLast ==
  \A n \in 1..Len(kanjiList) :
    kanjiList[n].lastReviewedAt > 0 => kanjiList[n].nextReviewAt >= kanjiList[n].lastReviewedAt

\* C14: at most one generation request is in flight; handleGenerate cannot
\* run again before the round in flight has resolved, so the usage updates of
\* two rounds follow one another.
C14_OneGenerationInFlight ==
  /\ Len(gens) <= 1
  /\ genLoading <=> gens # <<>>

\* a second round is in flight after the first one completed and counted its usage
C14_Witness ==
  /\ Len(gens) = 1 /\ genLoading /\ sessionInProgress
  /\ \E n \in 1..Len(gens[1].list) : gens[1].list[n].lastUsedAt = now

\* the status classes as the specification lists them, each on its own terms
StatusClasses == <<"new", "due", "leech", "learning", "mastered">>
InClass(class, kanji, t) ==
  CASE class = "new" -> kanji.srsLevel = 0
    [] class = "due" -> t >= kanji.nextReviewAt
    [] class = "leech" -> 0 < kanji.srsLevel /\ kanji.srsLevel <= 3 /\ kanji.correctStreak <= 1
    [] class = "learning" -> kanji.srsLevel < 7
    [] class = "mastered" -> TRUE
\* the first class, in the order of precedence, the character is in
FirstClass(kanji, t) ==
  StatusClasses[CHOOSE i \in 1..Len(StatusClasses) :
                  /\ InClass(StatusClasses[i], kanji, t)
                  /\ \A j \in 1..(i - 1) : ~InClass(StatusClasses[j], kanji, t)]

\* C15: the status shown for a character is the first class it is in, in the
\* order new, due, leech, learning, mastered; a non-due character with
\* srsLevel 2 and correctStreak 1 is a leech and a due character with
\* srsLevel >= 7 is due.
C15_StatusPrecedence ==
  \A n \in 1..Len(kanjiList) :
    LET k == kanjiList[n]
    IN /\ Status(k, now) = FirstClass(k, now)
       /\ (k.srsLevel = 2 /\ k.correctStreak = 1 /\ k.nextReviewAt > now) => Status(k, now) = "leech"
       /\ (k.srsLevel >= 7 /\ now >= k.nextReviewAt) => Status(k, now) = "due"

\* a character with srsLevel 2 and correctStreak 1 that is not due is shown as a leech
C15_Witness ==
  \E n \in 1..Len(kanjiList) :
    /\ kanjiList[n].srsLevel = 2 /\ kanjiList[n].correctStreak = 1
    /\ kanjiList[n].nextReviewAt > now
    /\ Status(kanjiList[n], now) = "leech"

\* a character that has had no review yet is new, is due, and is the whole
\* selection when it is the whole library and the proficiency filter admits it
FreshIsDue(list, t) ==
  \A n \in 1..Len(list) :
    list[n].lastReviewedAt = 0 =>
      /\ list[n].srsLevel = 0 /\ list[n].correctStreak = 0
      /\ list[n].nextReviewAt = list[n].addedAt /\ list[n].addedAt <= t
      /\ Status(list[n], t) = "new"
      /\ list[n] \in Range(DueForReview(list, t))
      /\ (Len(list) = 1 /\ Candidates(list, jlptFilter') # <<>>)
           => selectKanjiForPrompt(list, jlptFilter', t) = <<list[n]>>

\* C16: every entry a completing addKanji creates has srsLevel 0,
\* correctStreak 0, lastReviewedAt 0, usedCount 0 and nextReviewAt = addedAt =
\* the time of creation; until its first review it classifies as new and is
\* in the due tier, and a library of only that character yields the selection
\* of exactly that character.
C16_NewKanjiIsDue ==
  [][/\ \A i \in 1..Len(adds) :
          AddKanjiResolve(i) =>
            \A c \in Range(adds[i].chars) :
              LET k == EntryOf(kanjiList', c)
              IN /\ k.srsLevel = 0 /\ k.correctStreak = 0 /\ k.lastReviewedAt = 0
                 /\ k.usedCount = 0 /\ k.addedAt = now /\ k.nextReviewAt = k.addedAt
     /\ FreshIsDue(kanjiList', now')]_vars

\* the library holds only a character added in this run, not yet reviewed,
\* and the selection is that character
C16_Witness ==
  /\ Len(kanjiList) = 1
  /\ kanjiList[1].addedAt >= 41 /\ kanjiList[1].lastReviewedAt = 0
  /\ now > kanjiList[1].addedAt
  /\ Selection = <<kanjiList[1]>>

\* C17: a handleGenerate call whose selection is empty sets the no-candidates
\* error and nothing else: no request is dispatched, the loading flag and the
\* session flag stay as they were, the sentences on screen stay, and the
\* library in memory and in storage is unchanged.
C17_NoCandidates ==
  [][(handleGenerate /\ Len(selectKanjiForPrompt(kanjiList, jlptFilter, now)) = 0) =>
       /\ error' = NoCandidates
       /\ gens' = gens /\ genLoading' = genLoading
       /\ sessionInProgress' = sessionInProgress
       /\ Len(cards') = Len(cards)
       /\ kanjiList' = kanjiList /\ stored' = stored]_vars

\* the no-candidates error is shown over a library that has entries, none of
\* them admitted by the filter, and no session was started
C17_Witness ==
  /\ error = NoCandidates
  /\ kanjiList # <<>> /\ Pool = <<>>
  /\ gens = <<>> /\ ~genLoading /\ ~sessionInProgress

\* the step is an add completing, a delete, a usage update or a review update
SavingCall ==
  \/ \E i \in 1..Len(adds) : AddKanjiResolve(i)
  \/ \E c \in 1..NumChars : deleteKanji(c)
  \/ \E cs \in CharacterLists : UsageCall(cs)
  \/ \E cs \in CharacterLists : \E p \in Performances : ReviewCall(cs, p)

\* C18: after an add, a delete, a usage update or a review update whose
\* storage write succeeds, the stored item is the whole in-memory list: it
\* parses to the same entries with the same fields in the same order.
C18_StoredIsSnapshot ==
  [][(~storageFull /\ SavingCall) =>
       /\ stored'.present
       /\ Len(stored'.json) = Len(kanjiList')
       /\ Parse(stored'.json) = kanjiList']_vars

\* a character added in this run was saved, and the stored item holds both
\* entries of the library in the order of the list in memory
C18_Witness ==
  /\ ~storageFull /\ stored.present
  /\ Len(kanjiList) = 2
  /\ kanjiList[1].addedAt >= 41
  /\ Parse(stored.json) = kanjiList

\* C19: a storage write that fails does not stop the operation: the list in
\* memory is the new one (the deleted character is gone, the added ones are
\* there, the update is applied), the stored item stays the one
\* written last, and the next operation whose write succeeds stores the whole
\* current list.
C19_FailedWriteKeepsMemory ==
  [][/\ (storageFull /\ SavingCall) => stored' = stored
     /\ \A c \in 1..NumChars :
          (storageFull /\ deleteKanji(c)) => ~Tracked(kanjiList', c)
     /\ \A i \in 1..Len(adds) :
          (storageFull /\ AddKanjiResolve(i)) =>
            \A c \in Range(adds[i].chars) : Tracked(kanjiList', c)
     /\ \A cs \in CharacterLists :
          (storageFull /\ UsageCall(cs)) =>
            \A c \in Range(cs) :
              Tracked(kanjiList, c) =>
                EntryOf(kanjiList', c).usedCount = EntryOf(kanjiList, c).usedCount + 1
     /\ \A cs \in CharacterLists : \A p \in Performances :
          (storageFull /\ ReviewCall(cs, p)) =>
            \A c \in Range(cs) :
              Tracked(kanjiList, c) =>
                EntryOf(kanjiList', c) = ReviewedKanji(EntryOf(kanjiList, c), p, now)
     /\ (~storageFull /\ SavingCall /\ LoadedList(stored) # kanjiList) =>
          LoadedList(stored') = kanjiList']_vars

\* the storage is full, and the list in memory has moved on from the stored one
C19_Witness ==
  /\ storageFull
  /\ stored.present /\ Len(stored.json) = 1
  /\ ~Tracked(kanjiList, stored.json[1][1])

\* C20: the interval ladder never decreases from one level to the next, and
\* a character whose last review was correct and left it at srsLevel 7 or
\* above waits the last, largest interval of the ladder.
C20_LadderMonotone ==
  /\ \A i \in 1..(Len(SRS_INTERVALS) - 1) : SRS_INTERVALS[i] <= SRS_INTERVALS[i + 1]
  /\ \A i \in 1..Len(SRS_INTERVALS) : SRS_INTERVALS[i] <= SRS_INTERVALS[Len(SRS_INTERVALS)]
  /\ \A n \in 1..Len(kanjiList) :
       (kanjiList[n].correctStreak > 0 /\ kanjiList[n].srsLevel >= 7) =>
         kanjiList[n].nextReviewAt - kanjiList[n].lastReviewedAt
           = SRS_INTERVALS[Len(SRS_INTERVALS)]

\* a correct review in this run took a character beyond the last index of the ladder
C20_Witness ==
  \E n \in 1..Len(kanjiList) :
    /\ kanjiList[n].srsLevel = 8 /\ kanjiList[n].lastReviewedAt >= 41
    /\ kanjiList[n].nextReviewAt = kanjiList[n].lastReviewedAt + 2880

\* C21: updateKanjiUsage(chars) at time t adds 1 to usedCount and sets
\* lastUsedAt to t for every tracked character of chars, leaves every other
\* field of those characters as it was, and leaves every character outside
\* chars untouched; no entry is added or removed.
C21_UsageFrame ==
  [][\A cs \in CharacterLists :
       UsageCall(cs) =>
         /\ Len(kanjiList') = Len(kanjiList)
         /\ \A n \in 1..Len(kanjiList) :
              LET k == kanjiList[n]
                  after == EntryOf(kanjiList', k.character)
              IN /\ Tracked(kanjiList', k.character)
                 /\ IF k.character \in Range(cs)
                    THEN /\ after.usedCount = k.usedCount + 1
                         /\ after.lastUsedAt = now
                         /\ after.srsLevel = k.srsLevel
                         /\ after.correctStreak = k.correctStreak
                         /\ after.nextReviewAt = k.nextReviewAt
                         /\ after.lastReviewedAt = k.lastReviewedAt
                         /\ after.addedAt = k.addedAt
                         /\ after.jlptLevel = k.jlptLevel
                    ELSE after = k]_vars

\* of two tracked characters, one was counted as used in this run and the
\* other was not
C21_Witness ==
  /\ Len(kanjiList) = 2
  /\ \E n, m \in 1..2 :
       /\ kanjiList[n].lastUsedAt >= 41 /\ kanjiList[n].usedCount >= 1
       /\ kanjiList[m].lastUsedAt < 41

\* the entry after is the review transition of the entry before, for outcome p at time t
Transition(before, after, p, t) ==
  /\ after.character = before.character
  /\ after.lastReviewedAt = t
  /\ IF p = "correct"
     THEN /\ after.srsLevel = before.srsLevel + 1
          /\ after.correctStreak = before.correctStreak + 1
          /\ after.nextReviewAt = t + SRS_INTERVALS[Min(before.srsLevel + 1, 7) + 1]
     ELSE /\ after.srsLevel = Max(0, before.srsLevel - 2)
          /\ after.correctStreak = 0
          /\ after.nextReviewAt = t + 1
  /\ after.addedAt = before.addedAt /\ after.jlptLevel = before.jlptLevel
  /\ after.usedCount = before.usedCount /\ after.lastUsedAt = before.lastUsedAt

\* C22: in updateKanjiReview(chars, outcome) a character of chars that is
\* not tracked is skipped: no entry is created for it, the call completes,
\* and every tracked character of chars receives its full transition.
C22_UnknownIdSkipped ==
  [][\A cs \in CharacterLists : \A p \in Performances :
       (ReviewCall(cs, p) /\ \E c \in Range(cs) : ~Tracked(kanjiList, c)) =>
         /\ TrackedSet(kanjiList') = TrackedSet(kanjiList)
         /\ Len(kanjiList') = Len(kanjiList)
         /\ \A c \in Range(cs) :
              Tracked(kanjiList, c) =>
                Transition(EntryOf(kanjiList, c), EntryOf(kanjiList', c), p, now)]_vars

\* the only tracked character was reviewed in this run while the other
\* character is not tracked
C22_Witness ==
  /\ Len(kanjiList) = 1
  /\ kanjiList[1].lastReviewedAt >= 41
  /\ \E c \in 1..NumChars : ~Tracked(kanjiList, c)

\* C23: feedback on a sentence gives every tracked character of the
\* sentence's context the same transition for the same outcome at the same
\* time t, leaves every character outside the context as it was, and is not
\* given at all for a sentence whose context is empty.
C23_UniformFeedback ==
  [][\A i \in 1..Len(cards) : \A p \in Performances :
       handleFeedback(i, p) =>
         /\ Len(cards[i].usedKanjiInSentence) > 0
         /\ Len(kanjiList') = Len(kanjiList)
         /\ \A n \in 1..Len(kanjiList) :
              LET k == kanjiList[n]
              IN /\ Tracked(kanjiList', k.character)
                 /\ IF k.character \in Range(cards[i].usedKanjiInSentence)
                    THEN Transition(k, EntryOf(kanjiList', k.character), p, now)
                    ELSE EntryOf(kanjiList', k.character) = k]_vars

\* both characters of a two-character context were reviewed in this run at
\* the same time and stand at the same level
C23_Witness ==
  /\ Len(kanjiList) = 2
  /\ kanjiList[1].lastReviewedAt >= 41
  /\ kanjiList[1].lastReviewedAt = kanjiList[2].lastReviewedAt
  /\ \E i \in 1..Len(cards) : Len(cards[i].usedKanjiInSentence) = 2 /\ cards[i].isRevealed

\* the feedback buttons of card i are rendered: the rendering guard of SentenceCard
FeedbackOffered(cs, i) ==
  /\ i \in 1..Len(cs)
  /\ cs[i].isRevealed /\ ~cs[i].feedbackGiven
  /\ Len(cs[i].usedKanjiInSentence) > 0

\* C24: feedback on a sentence is given only while the sentence is revealed,
\* and once it has been given the sentence offers no further feedback: no
\* second review transition can come from it.
C24_FeedbackOnce ==
  [][\A i \in 1..Len(cards) : \A p \in Performances :
       handleFeedback(i, p) =>
         /\ cards[i].isRevealed
         /\ ~FeedbackOffered(cards', i)]_vars

\* C25: when a round returns, the context of each of its sentences is
\* exactly the set of tracked characters that occur in the sentence's text,
\* each listed once: none that occurs is left out, none that does not occur
\* is included, whether or not the character was in the prompt.
C25_ContextIsTrackedInText ==
  [][\A i \in 1..Len(gens) :
       (/\ genLoading /\ ~genLoading' /\ gens' = RemoveAt(gens, i)
        /\ cards' # <<>>
        /\ GenerateResolve(i, [n \in 1..Len(cards') |-> cards'[n].sentence]))
       => \A n \in 1..Len(cards') :
            LET context == cards'[n].usedKanjiInSentence
            IN /\ Range(context) =
                    {c \in Range(Characters(kanjiList')) : c \in cards'[n].sentence}
               /\ \A a, b \in 1..Len(context) : a # b => context[a] # context[b]]_vars

\* a round run under the level 5 filter returned a sentence with both
\* characters; character 2 has no level, was not a candidate and is in the
\* context all the same
C25_Witness ==
  /\ sessionInProgress /\ jlptFilter = 5
  /\ \E n \in 1..Len(cards) :
       /\ cards[n].sentence = {1, 2}
       /\ Range(cards[n].usedKanjiInSentence) = {1, 2}
  /\ Tracked(kanjiList, 2) /\ EntryOf(kanjiList, 2).jlptLevel = NoJlpt

\* the number of entries of list that have rank v
RankCount(list, v) == Cardinality({i \in 1..Len(list) : list[i].jlptLevel = v})

\* C26: the target level of a request is the filter when a filter is set;
\* otherwise, with n candidates that have a rank and sum the sum of their
\* ranks, it is unset when n = 0 and else an integer of 1..5 within one half
\* of sum / n; candidates without a rank count neither into n nor into sum.
C26_TargetLevel ==
  \A i \in 1..Len(gens) :
    LET t == gens[i].targetLevel
        pool == Pool
        n == RankCount(pool, 1) + RankCount(pool, 2) + RankCount(pool, 3)
               + RankCount(pool, 4) + RankCount(pool, 5)
        sum == RankCount(pool, 1) + 2 * RankCount(pool, 2) + 3 * RankCount(pool, 3)
                 + 4 * RankCount(pool, 4) + 5 * RankCount(pool, 5)
    IN IF jlptFilter > 0 THEN t = jlptFilter
       ELSE IF n = 0 THEN t = NoLevel
       ELSE /\ t \in 1..5
            /\ 2 * t * n - n <= 2 * sum
            /\ 2 * sum <= 2 * t * n + n

\* a request without filter over a library with ranks 4, 4 and 5 and an
\* unranked character: the average 13/3 gives target 4
C26_Witness ==
  /\ jlptFilter = 0 /\ Len(gens) = 1 /\ gens[1].targetLevel = 4
  /\ RankCount(kanjiList, 4) = 2 /\ RankCount(kanjiList, 5) = 1
  /\ RankCount(kanjiList, NoJlpt) = 1

C28_UpdatesSurviveCompletion ==
  [][/\ \A i \in 1..Len(adds) :
          AddKanjiResolve(i) =>
            \A c \in TrackedSet(kanjiList) \cap TrackedSet(kanjiList') :
              EntryOf(kanjiList', c) = EntryOf(kanjiList, c)
     /\ (genLoading /\ ~genLoading') =>
          \A c \in TrackedSet(kanjiList) \cap TrackedSet(kanjiList') :
            LET before == EntryOf(kanjiList, c)
                after == EntryOf(kanjiList', c)
            IN /\ after.srsLevel = before.srsLevel
               /\ after.correctStreak = before.correctStreak
               /\ after.nextReviewAt = before.nextReviewAt
               /\ after.lastReviewedAt = before.lastReviewedAt
               /\ after.usedCount >= before.usedCount
               /\ after.lastUsedAt >= before.lastUsedAt]_vars

\* addedAt does not increase along list
Descending(list) ==
  \A a, b \in 1..Len(list) : a < b => list[a].addedAt >= list[b].addedAt

\* C29: after every save the list in memory and the stored list are in
\* descending order of addedAt, and entries of equal addedAt stand in the
\* order in which they were inserted: the characters of one add in the order
\* of its text, and the entries of a list that is saved again after a
\* delete, a review or a usage update in the order they had.
C29_SortedAfterSave ==
  [][(kanjiList' # kanjiList \/ stored' # stored) =>
       /\ Descending(kanjiList')
       /\ stored'.present /\ Descending(Parse(stored'.json))
       /\ \A i \in 1..Len(adds) :
            AddKanjiResolve(i) =>
              /\ SelectSeq(Characters(kanjiList'),
                           LAMBDA c : c \in Range(adds[i].chars)) = adds[i].chars
              /\ SelectSeq(Characters(kanjiList'),
                           LAMBDA c : c \notin Range(adds[i].chars))
                   = Characters(adds[i].list)
       /\ \A c \in 1..NumChars :
            deleteKanji(c) =>
              Characters(kanjiList') = SelectSeq(Characters(kanjiList), LAMBDA d : d # c)
       /\ \A i \in 1..Len(cards) : \A p \in Performances :
            handleFeedback(i, p) => Characters(kanjiList') = Characters(kanjiList)
       /\ (genLoading /\ ~genLoading') =>
            \A i \in 1..Len(gens) :
              gens' = RemoveAt(gens, i) =>
                Characters(kanjiList') = Characters(gens[i].list)]_vars

\* one add of the text 2 1 was saved: both entries have the addedAt of the
\* add, and 2 stands before 1 in memory and in the stored list
C29_Witness ==
  /\ Len(kanjiList) = 2
  /\ kanjiList[1].addedAt = kanjiList[2].addedAt /\ kanjiList[1].addedAt >= 41
  /\ Characters(kanjiList) = <<2, 1>>
  /\ stored.present /\ Characters(Parse(stored.json)) = <<2, 1>>

\* C30: right after a review at time t the reviewed character is not due:
\* its lastReviewedAt is t, its nextReviewAt is at least t + 1 hour, and a
\* selection computed before t + 1 does not have it in the due tier.
C30_ReviewedIsNotDue ==
  [][\A i \in 1..Len(cards) : \A p \in Performances :
       handleFeedback(i, p) =>
         \A c \in Range(cards[i].usedKanjiInSentence) \cap TrackedSet(kanjiList) :
           LET after == EntryOf(kanjiList', c)
           IN /\ after.lastReviewedAt = now
              /\ after.nextReviewAt >= now + 1
              /\ after.nextReviewAt > after.lastReviewedAt
              /\ c \notin Range(Characters(
                      DueForReview(Candidates(kanjiList', jlptFilter), now')))]_vars

\* a character that was due got an incorrect answer in this hour: it is
\* scheduled one hour ahead and is no longer due
C30_Witness ==
  \E n \in 1..Len(kanjiList) :
    /\ kanjiList[n].lastReviewedAt = now
    /\ kanjiList[n].nextReviewAt = now + 1
    /\ kanjiList[n].srsLevel = 0 /\ kanjiList[n].correctStreak = 0
    /\ ~IsDue(kanjiList[n], now)

====
